---- MODULE Spec2Model ----
(***************************************************************************)
(* Delta-v / staging computation of RocketTelemetry.get_delta_v_status     *)
(* (server/src/utils/krpc_module/rocket_telemetry.py).                     *)
(*                                                                         *)
(* Number representation.  The program works on Python floats.  Here       *)
(*   - masses, thrusts, ISPs and propellant amounts are integers;          *)
(*   - twr and slt are exact fractions <<num, den>> in lowest terms with   *)
(*     den > 0, so that two different gravity constants give two           *)
(*     different values;                                                   *)
(*   - delta-v and burn time are fixed-point integers in 1/1000 units.     *)
(* Sequences are 1-based: the engine at 0-based position i of the source   *)
(* is engines[i + 1].                                                      *)
(***************************************************************************)
EXTENDS Integers, Sequences, FiniteSets

\* ------------------------------------------------------------------ bounds
MaxEngines == 3
MaxMass == 2

\* --------------------------------------------------------------- constants
\* The literal 9.81 of lines 226-227, as the fraction GravityNum / GravityDen.
GravityNum == 981
GravityDen == 100
\* g0 = 9.80665 of the rocket equation and of the burn-time estimate, x 10^5.
G0 == 980665

\* ------------------------------------------------------------ input domain
\* Engine status records as get_all_engines_status delivers them (the fields
\* get_delta_v_status reads).  "propellants" holds each propellant's
\* total_resource_available.
EngineCatalog ==
  { [stage |-> 2, max_thrust |-> 30, max_vacuum_thrust |-> 36,
     specific_impulse_at |-> 280, vacuum_specific_impulse |-> 320,
     propellants |-> <<1, 1>>],
    [stage |-> 1, max_thrust |-> 5, max_vacuum_thrust |-> 8,
     specific_impulse_at |-> 100, vacuum_specific_impulse |-> 340,
     propellants |-> <<1>>],
    [stage |-> 0, max_thrust |-> 0, max_vacuum_thrust |-> 0,
     specific_impulse_at |-> 0, vacuum_specific_impulse |-> 0,
     propellants |-> <<>>],
    [stage |-> 3, max_thrust |-> 40, max_vacuum_thrust |-> 44,
     specific_impulse_at |-> 250, vacuum_specific_impulse |-> 300,
     propellants |-> <<3, 3>>],
    [stage |-> 4, max_thrust |-> -1, max_vacuum_thrust |-> 10,
     specific_impulse_at |-> -5, vacuum_specific_impulse |-> 310,
     propellants |-> <<1>>] }

EngineLists == UNION { [1..n -> EngineCatalog] : n \in 0..MaxEngines }

Masses == 0..MaxMass

\* ------------------------------------------------------------------- state
VARIABLES
  satellite_bus,      \* self.satellite_bus.mass
  first_stage,        \* self.first_stage.mass
  second_stage,       \* self.second_stage.mass
  engines,            \* what get_all_engines_status() returns
  status,             \* "idle" | "returned" | "raised"
  stages_start_mass,  \* the local list of lines 210-213, as last computed
  report              \* the returned mapping

vars == <<satellite_bus, first_stage, second_stage, engines, status,
          stages_start_mass, report>>

\* ----------------------------------------------------------------- helpers
Min(a, b) == IF a < b THEN a ELSE b

Abs(a) == IF a < 0 THEN -a ELSE a

RECURSIVE GCD(_, _)
GCD(a, b) == IF b = 0 THEN a ELSE GCD(b, a % b)

\* n / d for d > 0, in lowest terms.
Fraction(n, d) ==
  LET g == GCD(Abs(n), d) IN <<n \div g, d \div g>>

\* sum(...) of Python: a left fold starting at 0.
RECURSIVE sum(_)
sum(s) == IF s = <<>> THEN 0 ELSE sum(SubSeq(s, 1, Len(s) - 1)) + s[Len(s)]

\* ln(n / d) x 1000 for n > d > 0, by 2 * atanh((n - d) / (n + d)) in
\* fixed point with four decimals.
RECURSIVE AtanhSeries(_, _, _)
AtanhSeries(t, k, z2) ==
  IF t = 0 THEN 0
  ELSE (t \div k) + AtanhSeries((t * z2) \div 10000, k + 2, z2)

LnMilli(n, d) ==
  LET z == ((n - d) * 10000) \div (n + d)
      z2 == (z * z) \div 10000
  IN (2 * AtanhSeries(z, 1, z2)) \div 10

\* BaseRocket.calculate_delta_v: the rocket equation, 0 on degenerate input.
\* Result in 1/1000 m/s.
calculate_delta_v(isp, fuel_mass, start_mass) ==
  IF fuel_mass <= 0 \/ start_mass - fuel_mass <= 0 \/ isp <= 0
  THEN 0
  ELSE isp * (((G0 \div 10) * LnMilli(start_mass, start_mass - fuel_mass))
              \div 10000)

\* BaseRocket.burn_time_estimation: fuel * isp * g0 / thrust, 0 on degenerate
\* input.  Result in 1/1000 s.
burn_time_estimation(isp, fuel_mass, thrust) ==
  IF thrust <= 0 \/ isp <= 0
  THEN 0
  ELSE (fuel_mass * isp * G0) \div (thrust * 100)

\* --------------------------------------------------- get_delta_v_status
\* Lines 210-213: the two stage start masses.
StagesStartMass(payload_mass, first_stage_mass, second_stage_mass) ==
  << payload_mass + first_stage_mass,
     payload_mass + first_stage_mass + second_stage_mass >>

\* Variant of start_mass_of: the index wraps around instead of being clamped.
start_mass_of_wrapped(i, masses) == masses[(i % Len(masses)) + 1]

\* Line 220: the start mass of the engine at 0-based position i.
start_mass_of(i, masses) == masses[Min(i, Len(masses) - 1) + 1]

\* Line 223: the engine's fuel mass.
fuel_mass_of(engine) == sum(engine.propellants)

\* Lines 226-227: thrust / (start_mass * 9.81), for start_mass > 0.
thrust_to_weight(thrust, start_mass) ==
  Fraction(thrust * GravityDen, start_mass * GravityNum)

\* Variant of end_mass_of: the end mass is floored at 0.
end_mass_of_floored(start_mass, fuel_mass) ==
  IF start_mass - fuel_mass < 0 THEN 0 ELSE start_mass - fuel_mass

\* Line 231.
end_mass_of(start_mass, fuel_mass) == start_mass - fuel_mass

\* Lines 226-227 divide by start_mass * 9.81: ZeroDivisionError when it is 0.
divides_by_zero(i, masses) == start_mass_of(i, masses) * GravityNum = 0

\* Variant of delta_v_entry: twr and slt take each other's thrust.
delta_v_entry_swapped(i, engine, masses) ==
  LET start_mass == start_mass_of(i, masses)
      max_vac_thrust == engine.max_vacuum_thrust
      max_thrust == engine.max_thrust
      fuel_mass == fuel_mass_of(engine)
      vac_isp == engine.vacuum_specific_impulse
      atom_isp == engine.specific_impulse_at
  IN [ stage |-> engine.stage,
       start_mass |-> start_mass,
       end_mass |-> end_mass_of(start_mass, fuel_mass),
       burned_mass |-> fuel_mass,
       max_thrust |-> max_vac_thrust,
       twr |-> thrust_to_weight(max_thrust, start_mass),
       slt |-> thrust_to_weight(max_vac_thrust, start_mass),
       isp |-> atom_isp,
       atom_delta_v |-> calculate_delta_v(atom_isp, fuel_mass, start_mass),
       vac_delta_v |-> calculate_delta_v(vac_isp, fuel_mass, start_mass),
       time |-> burn_time_estimation(atom_isp, fuel_mass, max_thrust) ]

\* Lines 220-246: the entry of the engine at 0-based position i.
delta_v_entry(i, engine, masses) ==
  LET start_mass == start_mass_of(i, masses)
      max_vac_thrust == engine.max_vacuum_thrust
      max_thrust == engine.max_thrust
      fuel_mass == fuel_mass_of(engine)
      vac_isp == engine.vacuum_specific_impulse
      atom_isp == engine.specific_impulse_at
  IN [ stage |-> engine.stage,
       start_mass |-> start_mass,
       end_mass |-> end_mass_of(start_mass, fuel_mass),
       burned_mass |-> fuel_mass,
       max_thrust |-> max_vac_thrust,
       twr |-> thrust_to_weight(max_vac_thrust, start_mass),
       slt |-> thrust_to_weight(max_thrust, start_mass),
       isp |-> atom_isp,
       atom_delta_v |-> calculate_delta_v(atom_isp, fuel_mass, start_mass),
       vac_delta_v |-> calculate_delta_v(vac_isp, fuel_mass, start_mass),
       time |-> burn_time_estimation(atom_isp, fuel_mass, max_thrust) ]

\* Variant of raises: the last entry is read unguarded (IndexError on an
\* empty list).
raises_unguarded(engs, masses) ==
  \/ engs = <<>>
  \/ \E k \in 1..Len(engs) : divides_by_zero(k - 1, masses)

\* Lines 219-227: the loop raises ZeroDivisionError at the first engine whose
\* start mass is 0; lines 254-255 guard the read of the last entry.
raises(engs, masses) ==
  \E k \in 1..Len(engs) : divides_by_zero(k - 1, masses)

\* Variant of delta_v_list_of: each entry is inserted at the front of the list.
delta_v_list_of_prepended(engs, masses) ==
  [ k \in 1..Len(engs) |->
      delta_v_entry(Len(engs) - k, engs[Len(engs) - k + 1], masses) ]

\* Lines 217-247: one entry per engine, appended in enumeration order.
delta_v_list_of(engs, masses) ==
  [ k \in 1..Len(engs) |-> delta_v_entry(k - 1, engs[k], masses) ]

\* Variant of total_delta_v_vac_of: the vacuum total sums the atmospheric field.
total_delta_v_vac_of_atom(list) ==
  sum([ k \in 1..Len(list) |-> list[k].atom_delta_v ])

\* Variant of stage_delta_v_atom_of: the first entry instead of the last.
stage_delta_v_atom_of_first(list) ==
  IF list # <<>> THEN list[1].atom_delta_v ELSE 0

\* Lines 250-251: the totals.
total_delta_v_atom_of(list) == sum([ k \in 1..Len(list) |-> list[k].atom_delta_v ])

total_delta_v_vac_of(list) == sum([ k \in 1..Len(list) |-> list[k].vac_delta_v ])

\* Lines 254-255: the last entry's delta-v, 0 for an empty list.
stage_delta_v_atom_of(list) ==
  IF list # <<>> THEN list[Len(list)].atom_delta_v ELSE 0

stage_delta_v_vac_of(list) ==
  IF list # <<>> THEN list[Len(list)].vac_delta_v ELSE 0

\* Lines 257-263.
report_of(list) ==
  [ stage_delta_v_atom |-> stage_delta_v_atom_of(list),
    stage_delta_v_vac |-> stage_delta_v_vac_of(list),
    total_delta_v_atom |-> total_delta_v_atom_of(list),
    total_delta_v_vac |-> total_delta_v_vac_of(list),
    delta_v_list |-> list ]

NoReport ==
  [ stage_delta_v_atom |-> 0, stage_delta_v_vac |-> 0,
    total_delta_v_atom |-> 0, total_delta_v_vac |-> 0,
    delta_v_list |-> <<>> ]

\* ------------------------------------------------------------ state machine
Init ==
  /\ satellite_bus \in Masses
  /\ first_stage \in Masses
  /\ second_stage \in Masses
  /\ engines \in EngineLists
  /\ status = "idle"
  /\ stages_start_mass = <<>>
  /\ report = NoReport

\* One call of get_delta_v_status (lines 206-263) on the current vessel.
get_delta_v_status ==
  /\ status = "idle"
  /\ LET masses == StagesStartMass(satellite_bus, first_stage, second_stage)
     IN /\ stages_start_mass' = masses
        /\ IF raises(engines, masses)
           THEN /\ status' = "raised"
                /\ report' = report
           ELSE /\ status' = "returned"
                /\ report' = report_of(delta_v_list_of(engines, masses))
  /\ UNCHANGED <<satellite_bus, first_stage, second_stage, engines>>

Next == get_delta_v_status

Spec == Init /\ [][Next]_vars

\* ------------------------------------------------------------- properties
\* Sum of a sequence of numbers, head first.
RECURSIVE SeqSum(_)
SeqSum(s) == IF s = <<>> THEN 0 ELSE Head(s) + SeqSum(Tail(s))

Returned == status = "returned"

Entries == report.delta_v_list

\* The stage start mass the clamp rule gives the engine at 1-based position k.
ClampedStartMass(k) ==
  IF k - 1 >= Len(stages_start_mass) - 1
  THEN stages_start_mass[Len(stages_start_mass)]
  ELSE stages_start_mass[k]

\* C1: in a returned report the entry of the engine at 0-based position i has
\* start_mass = stages_start_mass[min(i, len - 1)]; engines at or beyond the
\* last known stage reuse the last start mass.
C1_ClampRule ==
  Returned =>
    \A k \in 1..Len(Entries) : Entries[k].start_mass = ClampedStartMass(k)

\* Three engines on two different start masses: engines 1 and 2 (0-based)
\* share the second one.
C1_Witness ==
  /\ Returned
  /\ Len(Entries) = 3
  /\ stages_start_mass[1] # stages_start_mass[2]
  /\ Entries[2].start_mass = stages_start_mass[2]
  /\ Entries[3].start_mass = stages_start_mass[2]

\* C2: total_delta_v_vac is the sum of vac_delta_v over the entries and
\* total_delta_v_atom the sum of atom_delta_v over the entries.
C2_TotalsAreSums ==
  Returned =>
    /\ report.total_delta_v_vac =
         SeqSum([ k \in 1..Len(Entries) |-> Entries[k].vac_delta_v ])
    /\ report.total_delta_v_atom =
         SeqSum([ k \in 1..Len(Entries) |-> Entries[k].atom_delta_v ])

\* Several entries with a delta-v, and the two totals differ.
C2_Witness ==
  /\ Returned
  /\ Len(Entries) >= 2
  /\ \A k \in 1..Len(Entries) : Entries[k].vac_delta_v > 0
  /\ report.total_delta_v_vac > Entries[Len(Entries)].vac_delta_v
  /\ report.total_delta_v_vac # report.total_delta_v_atom

\* C3: for a non-empty engine list the stage figures are the atom_delta_v and
\* vac_delta_v of the last entry of delta_v_list.
C3_StageIsLastEntry ==
  (Returned /\ engines # <<>>) =>
    /\ report.stage_delta_v_atom = Entries[Len(Entries)].atom_delta_v
    /\ report.stage_delta_v_vac = Entries[Len(Entries)].vac_delta_v

\* The last entry differs from every other entry in both figures.
C3_Witness ==
  /\ Returned
  /\ Len(Entries) >= 2
  /\ \A k \in 1..(Len(Entries) - 1) :
       /\ Entries[k].atom_delta_v # report.stage_delta_v_atom
       /\ Entries[k].vac_delta_v # report.stage_delta_v_vac

\* C4: with an empty engine list the call returns, the four totals are 0 and
\* delta_v_list is empty, whatever the stage masses.
C4_EmptyInput ==
  (status # "idle" /\ engines = <<>>) =>
    /\ Returned
    /\ report.stage_delta_v_atom = 0
    /\ report.stage_delta_v_vac = 0
    /\ report.total_delta_v_atom = 0
    /\ report.total_delta_v_vac = 0
    /\ report.delta_v_list = <<>>

\* The call has run on an empty engine list and all-zero stage masses.
C4_Witness ==
  /\ Returned
  /\ engines = <<>>
  /\ stages_start_mass = <<0, 0>>

\* C5: building the report never raises, whatever the thrusts, ISPs,
\* propellant masses and start masses (a zero start mass included).
C5_NeverRaises == status # "raised"

\* C6: there are exactly two stage start masses; entry 0 is payload + first
\* stage + second stage and entry 1 is payload + second stage.
C6_StackingRule ==
  status # "idle" =>
    /\ Len(stages_start_mass) = 2
    /\ stages_start_mass[1] = satellite_bus + first_stage + second_stage
    /\ stages_start_mass[2] = satellite_bus + second_stage

\* C7: for positive payload, first-stage and second-stage masses the start
\* mass strictly decreases with the stage index.
C7_StrictlyDecreasing ==
  (status # "idle" /\ satellite_bus > 0 /\ first_stage > 0 /\ second_stage > 0)
    => stages_start_mass[1] > stages_start_mass[2]

\* C8 as stated: every entry has end_mass = start_mass - burned_mass and
\* end_mass >= 0.
C8_DryMassFloor ==
  Returned =>
    \A k \in 1..Len(Entries) :
       /\ Entries[k].end_mass = Entries[k].start_mass - Entries[k].burned_mass
       /\ Entries[k].end_mass >= 0

\* C8 as amended: every entry has end_mass = start_mass - burned_mass, where
\* burned_mass is the sum of the engine's propellant masses; end_mass is not
\* floored, it is negative exactly when burned_mass exceeds start_mass.
C8_EndMassIsDifference ==
  Returned =>
    \A k \in 1..Len(Entries) :
       /\ Entries[k].burned_mass = SeqSum(engines[k].propellants)
       /\ Entries[k].end_mass + Entries[k].burned_mass = Entries[k].start_mass
       /\ (Entries[k].end_mass < 0) <=>
            (Entries[k].burned_mass > Entries[k].start_mass)

\* An entry whose engine carries more propellant than the stage start mass.
C8_Witness ==
  /\ Returned
  /\ \E k \in 1..Len(Entries) :
       /\ Entries[k].burned_mass > Entries[k].start_mass
       /\ Entries[k].end_mass < 0

\* C9 as stated: twr = max_vacuum_thrust / (start_mass * 9.80665) and
\* slt = max_thrust / (start_mass * 9.80665).
C9_ThrustToWeightG0 ==
  Returned =>
    \A k \in 1..Len(Entries) :
       /\ Entries[k].twr[1] * (ClampedStartMass(k) * G0) =
            (engines[k].max_vacuum_thrust * 100000) * Entries[k].twr[2]
       /\ Entries[k].slt[1] * (ClampedStartMass(k) * G0) =
            (engines[k].max_thrust * 100000) * Entries[k].slt[2]

\* C9 as amended: twr = max_vacuum_thrust / (start_mass * 9.81) and
\* slt = max_thrust / (start_mass * 9.81), start_mass by the clamp rule.
C9_ThrustToWeight981 ==
  Returned =>
    \A k \in 1..Len(Entries) :
       /\ Entries[k].twr[2] > 0
       /\ Entries[k].slt[2] > 0
       /\ Entries[k].twr[1] * (ClampedStartMass(k) * 981) =
            (engines[k].max_vacuum_thrust * 100) * Entries[k].twr[2]
       /\ Entries[k].slt[1] * (ClampedStartMass(k) * 981) =
            (engines[k].max_thrust * 100) * Entries[k].slt[2]

\* An entry with two different, non-zero ratios.
C9_Witness ==
  /\ Returned
  /\ \E k \in 1..Len(Entries) :
       /\ Entries[k].twr[1] > 0
       /\ Entries[k].slt[1] > 0
       /\ Entries[k].twr # Entries[k].slt

\* C10: delta_v_list has one entry per engine and entry i carries the stage,
\* burned_mass, isp and thrust of the engine at position i.
C10_EntryOrder ==
  Returned =>
    /\ Len(Entries) = Len(engines)
    /\ \A k \in 1..Len(engines) :
         /\ Entries[k].stage = engines[k].stage
         /\ Entries[k].burned_mass = SeqSum(engines[k].propellants)
         /\ Entries[k].isp = engines[k].specific_impulse_at
         /\ Entries[k].max_thrust = engines[k].max_vacuum_thrust

\* Three different engines, reported in their order.
C10_Witness ==
  /\ Returned
  /\ Len(engines) = 3
  /\ engines[1].stage # engines[2].stage
  /\ engines[2].stage # engines[3].stage
  /\ engines[1].stage # engines[3].stage
  /\ Entries[1].stage = engines[1].stage
  /\ Entries[3].stage = engines[3].stage

====
